---- MODULE Spec2Model ----
(***************************************************************************)
(* A model of the two Aliyun OSS storage drivers of node-flydrive:         *)
(*                                                                         *)
(*   src/src/Drivers/AliyunOSS.ts   class AliyunOSS (the typed adapter)     *)
(*   src/src/Drivers/Aliyun.js      class Aliyun    (the legacy driver)     *)
(*                                                                         *)
(* The ali-oss client the drivers call is an external collaborator.  It is *)
(* modelled as an object store (bucket -> key -> object) whose requests    *)
(* either take effect and answer, or fail with an error and change         *)
(* nothing.  Which error a request may fail with is chosen by the          *)
(* environment among the answers the store can truthfully give             *)
(* (HeadAnswers, GetAnswers, ...).                                         *)
(*                                                                         *)
(* Spec       is the state machine of one shared AliyunOSS instance.  Every *)
(*            call but move is one backend request, so it is one step, by  *)
(*            whichever caller.  A move suspends between its two requests: *)
(*            the model follows one move call through both (pc, mv) while  *)
(*            the other callers' calls interleave with it.  The requests   *)
(*            of a second concurrent move are those of a copy and a delete *)
(*            call, which do interleave.                                   *)
(* LegacySpec is the state machine of one shared Aliyun instance used by   *)
(*            the callers of Callers, each selecting its own bucket.  The  *)
(*            legacy driver passes the client's answers and errors through *)
(*            untouched, so its backend is modelled by its answers alone.  *)
(***************************************************************************)
EXTENDS Integers, Sequences, FiniteSets, TLC

VARIABLES
    \* ---- AliyunOSS (AliyunOSS.ts) ----
    driver,     \* this.$driver : the ali-oss client, known by its options
    config,     \* this.$config : configParams
    bucketName, \* this.$bucket
    store,      \* the backend: bucket -> key -> object
    pc,         \* the followed move call: "idle", or "moving" (after its copy)
    mv,         \* the followed move call: its arguments and what it found
    res,        \* the outcome of the latest call step (what its caller observes)
    last,       \* per key: the latest successful put or delete, while every
                \* successful write so far was a put of bytes or a delete
    \* ---- Aliyun (Aliyun.js) ----
    lbucket,    \* this._bucket : a Resetable, [initial, current]
    loss,       \* this.oss : the ali-oss client, known by its options
    lpc,        \* per caller: "idle", "selected" (after bucket()), "copying",
                \* "deleting" (at the awaits of copy and move), "done"
    lcall       \* per caller: its call, what it used, and what it returned

ossVars == <<driver, config, bucketName, store, pc, mv, res, last>>
legacyVars == <<lbucket, loss, lpc, lcall>>
vars == <<driver, config, bucketName, store, pc, mv, res, last,
          lbucket, loss, lpc, lcall>>

(***************************************************************************)
(* Bounds and finite domains                                               *)
(***************************************************************************)
\* Longest payload put into the store.
MaxLen == 2
\* Largest expiry (seconds) a caller passes to getSignedUrl.
MaxExpiry == 1
\* The expires value of a caller that passes the backend's own option.
NativeExpires == 3600

\* One payload of each length: the bytes 65 ("A") and 200 (not ASCII) in turn.
Payload(n) == [i \in 1..n |-> IF i % 2 = 1 THEN 65 ELSE 200]
Payloads == {Payload(n) : n \in 0..MaxLen}
Keys == {"a.txt", "b.txt"}
ExistingBuckets == {"main", "alt"}
AllBuckets == ExistingBuckets \cup {"wrong"}
Callers == {"c1", "c2"}
Encodings == {"utf-8", "latin1", "bogus"}
\* Local files a put(location, <string>) may name, and one that is missing.
LocalPaths == {"/tmp/f", "/tmp/missing"}
LocalFile(path) == IF path = "/tmp/f" THEN <<65>> ELSE <<>>
LocalFileExists(path) == path = "/tmp/f"

\* The default expiry of getSignedUrl.
DefaultExpiry == 900

(***************************************************************************)
(* Values                                                                  *)
(***************************************************************************)
NoObject == [present |-> FALSE, body |-> <<>>]
Object(bytes) == [present |-> TRUE, body |-> bytes]

\* A backend error: Error.name and the HTTP status the client attaches.
NoErr == [name |-> "", status |-> 0]
NoSuchKey == [name |-> "NoSuchKeyError", status |-> 404]
NoSuchBucket == [name |-> "NoSuchBucketError", status |-> 404]
AccessDenied == [name |-> "AccessDeniedError", status |-> 403]
RequestError == [name |-> "RequestError", status |-> -1]
FileError == [name |-> "Error", status |-> 0]
TypeError == [name |-> "TypeError", status |-> 0]
\* Failures that do not depend on what is stored: authorization, transport.
Faults == {AccessDenied}
BackendErrors == Faults \cup {NoSuchKey, NoSuchBucket, FileError, RequestError}

\* What a call throws: the class of the thrown value and the constructor's
\* arguments.  class = "" means nothing was thrown.
NoThrow == [class |-> "", cause |-> NoErr, code |-> "", path |-> ""]
\* A value thrown as it is: its class is the error's own name.
Unwrapped(err) == [class |-> err.name, cause |-> err, code |-> "", path |-> ""]
Taxonomy == {"FileNotFound", "UnknownException"}


(***************************************************************************)
(* The backend (the ali-oss client and the service behind it)              *)
(***************************************************************************)
\* new OSS(options): the client keeps the options it was built with.
NewOSS(options) == [options |-> options]

\* The answers the backend may give to each request: NoErr is success.
HeadAnswers(st, b, k) ==
    Faults \cup (IF b \notin ExistingBuckets THEN {NoSuchKey, NoSuchBucket}
                 ELSE IF ~st[b][k].present THEN {NoSuchKey} ELSE {NoErr})
GetAnswers(st, b, k) ==
    Faults \cup (IF b \notin ExistingBuckets THEN {NoSuchBucket}
                 ELSE IF ~st[b][k].present THEN {NoSuchKey} ELSE {NoErr})
PutAnswers(b, content) ==
    Faults \cup (IF content.kind = "path" /\ ~LocalFileExists(content.path) THEN {FileError}
                 ELSE IF b \notin ExistingBuckets THEN {NoSuchBucket} ELSE {NoErr})
DeleteAnswers(b) ==
    Faults \cup (IF b \notin ExistingBuckets THEN {NoSuchBucket} ELSE {NoErr})
CopyAnswers(st, b, from) == GetAnswers(st, b, from)
SignAnswers == {NoErr, TypeError}

\* The bytes a put stores: a Buffer's bytes, or the content of the local
\* file a string names.
ContentBytes(content) ==
    IF content.kind = "path" THEN LocalFile(content.path) ELSE content.bytes

\* The store after a request that took effect.
StorePut(st, b, k, bytes) == [st EXCEPT ![b][k] = Object(bytes)]
StoreDelete(st, b, k) == [st EXCEPT ![b][k] = NoObject]
\* client.copy(name, sourceName): name is the destination.
StoreCopy(st, b, name, sourceName) == [st EXCEPT ![b][name] = st[b][sourceName]]

\* client.generateObjectUrl(name): protocol, bucket, endpoint host and key.
EndpointHost(options) ==
    IF options.endpoint # "" THEN <<options.endpoint>>
    ELSE <<options.region, ".aliyuncs.com">>
generateObjectUrl(client, name) ==
    <<IF client.options.secure THEN "https://" ELSE "http://",
      client.options.bucket, ".">> \o EndpointHost(client.options) \o <<"/", name>>

\* client.signatureUrl(name, params): the object URL signed for params.expires.
signatureUrl(client, name, params) ==
    [url |-> generateObjectUrl(client, name), expires |-> params.expires]

(***************************************************************************)
(* AliyunOSS.ts                                                            *)
(***************************************************************************)
\* handleError with its NoSuchKeyError case lost.
handleErrorNoCase(err, path) ==
    [class |-> "UnknownException", cause |-> err, code |-> err.name, path |-> path]

\* function handleError(err, path): never
handleError(err, path) ==
    IF err.name = "NoSuchKeyError"
    THEN [class |-> "FileNotFound", cause |-> err, code |-> "", path |-> path]
    ELSE [class |-> "UnknownException", cause |-> err, code |-> err.name, path |-> path]

\* constructor(config): configParams = {accessKeyId, accessKeySecret, ...config}
configParams(cfg) ==
    [accessKeyId |-> cfg.key, accessKeySecret |-> cfg.secret, key |-> cfg.key,
     secret |-> cfg.secret, bucket |-> cfg.bucket, endpoint |-> cfg.endpoint,
     region |-> cfg.region, internal |-> cfg.internal, secure |-> cfg.secure]

\* The AliyunOSSConfig values an adapter is constructed with.
AliyunOSSConfigs ==
    {[key |-> "id", secret |-> "s3cr3t", bucket |-> b, endpoint |-> e,
      region |-> "oss-cn-x", internal |-> FALSE, secure |-> s] :
        <<b, e, s>> \in {<<"main", "oss.example.com", FALSE>>,
                         <<"wrong", "", TRUE>>}}

NoHandle == [options |-> configParams([key |-> "", secret |-> "", bucket |-> "",
                                       endpoint |-> "", region |-> "",
                                       internal |-> FALSE, secure |-> FALSE])]
NoParams == [f \in {} |-> 0]
NoMove == [src |-> "", dest |-> "", before |-> NoObject, clean |-> TRUE]

\* A backend request as issued: the operation, the bucket of the client it
\* was issued on, and the key arguments in the order they were passed.
Request(client, op, a1, a2) ==
    [op |-> op, bucket |-> client.options.bucket, a1 |-> a1, a2 |-> a2]

\* The requests the adapter issues on this.$driver, arguments in the order
\* the code passes them.
headRequest(client, location) == Request(client, "head", location, "")
getRequest(client, location) == Request(client, "get", location, "")
getStreamRequest(client, location) == Request(client, "getStream", location, "")
signatureUrlRequest(client, location) == Request(client, "signatureUrl", location, "")
putRequest(client, location) == Request(client, "put", location, "")
deleteRequest(client, location) == Request(client, "delete", location, "")
\* copy with the arguments in the contract's order, not the client's.
copyRequestSrcFirst(client, src, dest) == Request(client, "copy", src, dest)
\* this.$driver.copy(dest, src, options)
copyRequest(client, src, dest) == Request(client, "copy", dest, src)

\* The answers the backend may give to a request, and the store after a
\* request that took effect (bytes: the body a put carries).
Answers(st, req, content) ==
    CASE req.op \in {"head"} -> HeadAnswers(st, req.bucket, req.a1)
      [] req.op \in {"get", "getStream"} -> GetAnswers(st, req.bucket, req.a1)
      [] req.op = "put" -> PutAnswers(req.bucket, content)
      [] req.op = "delete" -> DeleteAnswers(req.bucket)
      [] req.op = "copy" -> CopyAnswers(st, req.bucket, req.a2)
      [] req.op = "signatureUrl" -> SignAnswers
Effect(st, req, content) ==
    CASE req.op = "put" -> StorePut(st, req.bucket, req.a1, ContentBytes(content))
      [] req.op = "delete" -> StoreDelete(st, req.bucket, req.a1)
      [] req.op = "copy" -> StoreCopy(st, req.bucket, req.a1, req.a2)
      [] OTHER -> st
\* The body the backend answers a successful get with.
Body(st, req) == st[req.bucket][req.a1].body
NoContent == [kind |-> "buffer", bytes |-> <<>>, path |-> ""]

\* What a call step leaves for its caller to observe.
\*   state   "resolved" | "rejected" | "returned" | "threw" | "pending"
\*   answer  the backend's answer to the step's request (NoErr: it succeeded)
\*   raw     "result" | "error" | "undefined": what the response's raw holds
BlankRes ==
    [op |-> "", loc |-> "", dest |-> "", enc |-> "", state |-> "none",
     thrown |-> NoThrow, answer |-> NoErr, reqs |-> <<>>, raw |-> "",
     exists |-> FALSE, content |-> <<>>, text |-> <<>>, size |-> 0,
     url |-> <<>>, signedFor |-> 0, options |-> NoParams, params |-> NoParams,
     handle |-> NoHandle, before |-> NoObject, clean |-> TRUE]

Rejected(r, answer, thrown) ==
    [r EXCEPT !.state = "rejected", !.answer = answer, !.thrown = thrown]


\* Buffer.toString(encoding) on the bytes the model stores (code points).
RECURSIVE Utf8Decode(_)
Utf8Decode(bytes) ==
    IF bytes = <<>> THEN <<>>
    ELSE IF bytes[1] < 128 THEN <<bytes[1]>> \o Utf8Decode(Tail(bytes))
    ELSE IF /\ bytes[1] >= 194 /\ bytes[1] <= 223 /\ Len(bytes) >= 2
            /\ bytes[2] >= 128 /\ bytes[2] <= 191
         THEN <<(bytes[1] - 192) * 64 + (bytes[2] - 128)>> \o Utf8Decode(Tail(Tail(bytes)))
    ELSE <<65533>> \o Utf8Decode(Tail(bytes))
BufferToString(bytes, encoding) ==
    IF encoding = "utf-8" THEN Utf8Decode(bytes) ELSE bytes
KnownEncoding(encoding) == encoding \in {"utf-8", "latin1"}

\* exists without its 404 test: every failed head is an error.
existsOutcomeNo404(client, location, answer) ==
    LET r == [BlankRes EXCEPT !.op = "exists", !.loc = location,
                              !.reqs = <<headRequest(client, location)>>]
    IN  IF answer = NoErr
        THEN [r EXCEPT !.state = "resolved", !.exists = TRUE, !.raw = "result"]
        ELSE Rejected(r, answer, handleError(answer, location))

\* public async exists(location, options?)
existsOutcome(client, location, answer) ==
    LET r == [BlankRes EXCEPT !.op = "exists", !.loc = location,
                              !.reqs = <<headRequest(client, location)>>]
    IN  IF answer = NoErr
        THEN [r EXCEPT !.state = "resolved", !.exists = TRUE, !.raw = "result"]
        ELSE IF answer.status = 404
        THEN [r EXCEPT !.state = "resolved", !.exists = FALSE, !.raw = "error",
                       !.answer = answer]
        ELSE Rejected(r, answer, handleError(answer, location))

\* getBuffer taking the body from the wrong field of the result.
getBufferOutcomeNoBody(client, st, location, answer) ==
    LET r == [BlankRes EXCEPT !.op = "getBuffer", !.loc = location,
                              !.reqs = <<getRequest(client, location)>>]
    IN  IF answer = NoErr
        THEN [r EXCEPT !.state = "resolved", !.raw = "result", !.content = <<>>]
        ELSE Rejected(r, answer, handleError(answer, location))

\* public async getBuffer(location)
getBufferOutcome(client, st, location, answer) ==
    LET r == [BlankRes EXCEPT !.op = "getBuffer", !.loc = location,
                              !.reqs = <<getRequest(client, location)>>]
    IN  IF answer = NoErr
        THEN [r EXCEPT !.state = "resolved", !.raw = "result",
                       !.content = Body(st, r.reqs[1])]
        ELSE Rejected(r, answer, handleError(answer, location))

\* public async get(location, encoding = 'utf-8')
getOutcome(client, st, location, encoding, answer) ==
    LET bufferResult == getBufferOutcome(client, st, location, answer)
        r == [bufferResult EXCEPT !.op = "get", !.enc = encoding]
    IN  IF bufferResult.state = "rejected" THEN r
        ELSE IF ~KnownEncoding(encoding)
        THEN [r EXCEPT !.state = "rejected", !.thrown = Unwrapped(TypeError),
                       !.raw = "", !.content = <<>>]
        ELSE [r EXCEPT !.content = <<>>,
                       !.text = BufferToString(bufferResult.content, encoding)]

\* public async getStat(location)
getStatOutcome(client, st, location, answer) ==
    LET r == [BlankRes EXCEPT !.op = "getStat", !.loc = location,
                              !.reqs = <<headRequest(client, location)>>]
    IN  IF answer = NoErr
        THEN [r EXCEPT !.state = "resolved", !.raw = "result",
                       !.size = Len(Body(st, r.reqs[1]))]
        ELSE Rejected(r, answer, handleError(answer, location))

\* public async getStream(location): no try/catch around the request
getStreamOutcome(client, st, location, answer) ==
    LET r == [BlankRes EXCEPT !.op = "getStream", !.loc = location,
                              !.reqs = <<getStreamRequest(client, location)>>]
    IN  IF answer = NoErr
        THEN [r EXCEPT !.state = "resolved", !.content = Body(st, r.reqs[1])]
        ELSE Rejected(r, answer, Unwrapped(answer))

\* Object.assign(target, source) on objects given as field -> value
ObjectAssign(target, source) ==
    [f \in DOMAIN target \cup DOMAIN source |->
        IF f \in DOMAIN source THEN source[f] ELSE target[f]]

\* The options a caller passes to getSignedUrl: any of expiry (the contract's)
\* and expires (the backend's own), each with a value.
SignedUrlOptions ==
    {[f \in {} |-> 0]}
      \cup {[expiry |-> e] : e \in 1..MaxExpiry}
      \cup {[expires |-> NativeExpires]}
      \cup {[expiry |-> e, expires |-> NativeExpires] : e \in 1..MaxExpiry}

\* signParams with the assignment turned around: the contract's expiry wins.
signParamsExpiryWins(options) ==
    LET expiry == IF "expiry" \in DOMAIN options THEN options.expiry ELSE DefaultExpiry
    IN  ObjectAssign(options, [expires |-> expiry])

\* const { expiry = 900 } = options; Object.assign({ expires: expiry }, options)
signParams(options) ==
    LET expiry == IF "expiry" \in DOMAIN options THEN options.expiry ELSE DefaultExpiry
    IN  ObjectAssign([expires |-> expiry], options)

\* public async getSignedUrl(location, options = {})
getSignedUrlOutcome(client, location, options, answer) ==
    LET params == signParams(options)
        r == [BlankRes EXCEPT !.op = "getSignedUrl", !.loc = location,
                              !.options = options, !.params = params,
                              !.reqs = <<signatureUrlRequest(client, location)>>]
        result == signatureUrl(client, location, params)
    IN  IF answer = NoErr
        THEN [r EXCEPT !.state = "resolved", !.raw = "result", !.url = result.url,
                       !.signedFor = result.expires]
        ELSE Rejected(r, answer, handleError(answer, location))

\* public getUrl(location): synchronous, no request
getUrlOutcome(client, location) ==
    [BlankRes EXCEPT !.op = "getUrl", !.loc = location, !.state = "returned",
                     !.url = generateObjectUrl(client, location)]

\* public bucket(bucket): new OSS({...this.$config, bucket})
bucketOutcome(cfg, name) ==
    [BlankRes EXCEPT !.op = "bucket", !.loc = name, !.state = "returned",
                     !.handle = NewOSS([cfg EXCEPT !.bucket = name])]

\* public driver()
driverOutcome(client) ==
    [BlankRes EXCEPT !.op = "driver", !.state = "returned", !.handle = client]

\* public async put(location, content, options?)
putOutcome(client, location, answer) ==
    LET r == [BlankRes EXCEPT !.op = "put", !.loc = location,
                              !.reqs = <<putRequest(client, location)>>]
    IN  IF answer = NoErr THEN [r EXCEPT !.state = "resolved", !.raw = "result"]
        ELSE Rejected(r, answer, handleError(answer, location))

\* public async delete(location, options?)
deleteOutcome(client, location, answer) ==
    LET r == [BlankRes EXCEPT !.op = "delete", !.loc = location,
                              !.reqs = <<deleteRequest(client, location)>>]
    IN  IF answer = NoErr THEN [r EXCEPT !.state = "resolved", !.raw = "result"]
        ELSE Rejected(r, answer, handleError(answer, location))

\* public async copy(src, dest, options?): this.$driver.copy(dest, src)
copyOutcome(client, src, dest, answer) ==
    LET r == [BlankRes EXCEPT !.op = "copy", !.loc = src, !.dest = dest,
                              !.reqs = <<copyRequest(client, src, dest)>>]
    IN  IF answer = NoErr THEN [r EXCEPT !.state = "resolved", !.raw = "result"]
        ELSE Rejected(r, answer, handleError(answer, src))


(***************************************************************************)
(* AliyunOSS: the calls, as steps of the state machine                     *)
(***************************************************************************)
\* What a caller may pass as put's content: a Buffer (a Readable is stored
\* as the bytes it yields, like a Buffer), or a string, which the client
\* reads as the path of a local file.
PutContents ==
    [kind : {"buffer"}, bytes : Payloads, path : {""}]
      \cup [kind : {"path"}, bytes : {<<>>}, path : LocalPaths]

\* The history of writes, kept for as long as it is a sequence of put(K, P)
\* with byte payloads and delete(K): per key, the latest of them.  Any other
\* successful write (a copy, a move, a put of a local file) ends the record.
NoWrite == [op |-> "none", bytes |-> <<>>]
Untracked == [k \in Keys |-> [op |-> "untracked", bytes |-> <<>>]]
Track(history, k, write) ==
    IF history[k].op = "untracked" THEN history ELSE [history EXCEPT ![k] = write]
AfterPut(history, k, content) ==
    IF content.kind = "path" THEN Untracked
    ELSE Track(history, k, [op |-> "put", bytes |-> content.bytes])
AfterDelete(history, k) == Track(history, k, [op |-> "delete", bytes |-> <<>>])

\* The move in flight, marked when another call's request changes a key it
\* reads or writes.
Disturb(keys) ==
    IF pc = "moving" /\ ({mv.src, mv.dest} \cap keys) # {}
    THEN [mv EXCEPT !.clean = FALSE] ELSE mv

adapterVars == <<driver, config, bucketName>>
\* The object the backend holds under key k of the bucket the adapter's
\* client is bound to (none when that bucket does not exist).
Stored(k) ==
    IF driver.options.bucket \in ExistingBuckets
    THEN store[driver.options.bucket][k] ELSE NoObject

Exists(location) ==
    /\ \E answer \in Answers(store, headRequest(driver, location), NoContent) :
          res' = existsOutcome(driver, location, answer)
    /\ UNCHANGED <<adapterVars, store, pc, mv, last, legacyVars>>

GetBuffer(location) ==
    /\ \E answer \in Answers(store, getRequest(driver, location), NoContent) :
          res' = getBufferOutcome(driver, store, location, answer)
    /\ UNCHANGED <<adapterVars, store, pc, mv, last, legacyVars>>

Get(location, encoding) ==
    /\ \E answer \in Answers(store, getRequest(driver, location), NoContent) :
          res' = getOutcome(driver, store, location, encoding, answer)
    /\ UNCHANGED <<adapterVars, store, pc, mv, last, legacyVars>>

GetStat(location) ==
    /\ \E answer \in Answers(store, headRequest(driver, location), NoContent) :
          res' = getStatOutcome(driver, store, location, answer)
    /\ UNCHANGED <<adapterVars, store, pc, mv, last, legacyVars>>

GetStream(location) ==
    /\ \E answer \in Answers(store, getStreamRequest(driver, location), NoContent) :
          res' = getStreamOutcome(driver, store, location, answer)
    /\ UNCHANGED <<adapterVars, store, pc, mv, last, legacyVars>>

GetSignedUrl(location, options) ==
    /\ \E answer \in Answers(store, signatureUrlRequest(driver, location), NoContent) :
          res' = getSignedUrlOutcome(driver, location, options, answer)
    /\ UNCHANGED <<adapterVars, store, pc, mv, last, legacyVars>>

GetUrl(location) ==
    /\ res' = getUrlOutcome(driver, location)
    /\ UNCHANGED <<adapterVars, store, pc, mv, last, legacyVars>>

\* bucket(name) switching the receiver itself, as the legacy driver does.
bucketEffectInPlace(adapter, name) ==
    [adapter EXCEPT !.driver = NewOSS([adapter.config EXCEPT !.bucket = name])]
\* The adapter's fields after bucket(name): it assigns none of them.
bucketEffect(adapter, name) == adapter

Bucket(name) ==
    /\ res' = bucketOutcome(config, name)
    /\ LET after == bucketEffect([driver |-> driver, config |-> config,
                                  bucket |-> bucketName], name)
       IN  /\ driver' = after.driver
           /\ config' = after.config
           /\ bucketName' = after.bucket
    /\ UNCHANGED <<store, pc, mv, last, legacyVars>>

Driver ==
    /\ res' = driverOutcome(driver)
    /\ UNCHANGED <<adapterVars, store, pc, mv, last, legacyVars>>

Put(location, content) ==
    /\ LET req == putRequest(driver, location)
       IN  \E answer \in Answers(store, req, content) :
              /\ res' = putOutcome(driver, location, answer)
              /\ IF answer = NoErr
                 THEN /\ store' = Effect(store, req, content)
                      /\ last' = AfterPut(last, req.a1, content)
                      /\ mv' = Disturb({req.a1})
                 ELSE UNCHANGED <<store, last, mv>>
    /\ UNCHANGED <<adapterVars, pc, legacyVars>>

Delete(location) ==
    /\ LET req == deleteRequest(driver, location)
       IN  \E answer \in Answers(store, req, NoContent) :
              /\ res' = deleteOutcome(driver, location, answer)
              /\ IF answer = NoErr
                 THEN /\ store' = Effect(store, req, NoContent)
                      /\ last' = AfterDelete(last, req.a1)
                      /\ mv' = Disturb({req.a1})
                 ELSE UNCHANGED <<store, last, mv>>
    /\ UNCHANGED <<adapterVars, pc, legacyVars>>

Copy(src, dest) ==
    /\ LET req == copyRequest(driver, src, dest)
       IN  \E answer \in Answers(store, req, NoContent) :
              /\ res' = copyOutcome(driver, src, dest, answer)
              /\ IF answer = NoErr
                 THEN /\ store' = Effect(store, req, NoContent)
                      /\ last' = Untracked
                      /\ mv' = Disturb({req.a1})
                 ELSE UNCHANGED <<store, last, mv>>
    /\ UNCHANGED <<adapterVars, pc, legacyVars>>

\* public async move(src, dest), up to its first await: await this.copy(src, dest)
moveFirstStep(client, src, dest, answer) == copyOutcome(client, src, dest, answer)

MoveCopy(src, dest) ==
    /\ pc = "idle"
    /\ LET req == moveFirstStep(driver, src, dest, NoErr).reqs[1]
       IN  \E answer \in Answers(store, req, NoContent) :
              LET copied == moveFirstStep(driver, src, dest, answer)
              IN  IF copied.state = "resolved"
                  THEN /\ store' = Effect(store, req, NoContent)
                       /\ last' = Untracked
                       /\ pc' = "moving"
                       /\ mv' = [src |-> src, dest |-> dest,
                                 before |-> Stored(src), clean |-> TRUE]
                       /\ res' = [copied EXCEPT !.op = "move", !.state = "pending",
                                                !.raw = "", !.before = Stored(src)]
                  ELSE /\ res' = [copied EXCEPT !.op = "move"]
                       /\ UNCHANGED <<store, last, pc, mv>>
    /\ UNCHANGED <<adapterVars, legacyVars>>

\* move swallowing the failure of its delete.
moveSecondStepSwallow(client, m, answer) ==
    LET deleted == deleteOutcome(client, m.src, answer)
    IN  [deleted EXCEPT !.op = "move", !.loc = m.src, !.dest = m.dest,
                        !.before = m.before, !.clean = m.clean,
                        !.state = "resolved", !.thrown = NoThrow, !.raw = "undefined"]

\* move, resumed after its copy: await this.delete(src); return { raw: undefined }
moveSecondStep(client, m, answer) ==
    LET deleted == deleteOutcome(client, m.src, answer)
        r == [deleted EXCEPT !.op = "move", !.loc = m.src, !.dest = m.dest,
                             !.before = m.before, !.clean = m.clean]
    IN  IF deleted.state = "resolved" THEN [r EXCEPT !.raw = "undefined"] ELSE r

MoveDelete ==
    /\ pc = "moving"
    /\ LET req == moveSecondStep(driver, mv, NoErr).reqs[1]
       IN  \E answer \in Answers(store, req, NoContent) :
              /\ res' = moveSecondStep(driver, mv, answer)
              /\ IF answer = NoErr
                 THEN /\ store' = Effect(store, req, NoContent)
                      /\ last' = AfterDelete(last, req.a1)
                 ELSE UNCHANGED <<store, last>>
    /\ mv' = NoMove
    /\ pc' = "idle"
    /\ UNCHANGED <<adapterVars, legacyVars>>

(***************************************************************************)
(* Aliyun.js                                                               *)
(***************************************************************************)
\* The bucket the shared instance is configured with, and the bucket each
\* caller selects with bucket().
LegacyDefaultBucket == "main"
OwnBucket(c) == IF c = "c1" THEN "alt" ELSE "beta"
\* An explicit bucket argument (getUrl's bucket, copy's and move's destBucket);
\* "" is the argument left out.
BucketArgs == {"", "gamma"}
\* The calls that are one request passed through: await this.oss.<op>(...).
LegacySimpleOps == {"exists", "put", "delete", "get"}
LegacyAnswers == {NoErr, NoSuchKey}

\* new Resetable(value); .set(value); .pull(): the current value, and reset
Resetable(value) == [initial |-> value, current |-> value]
ResetableSet(r, value) == [r EXCEPT !.current = value]
ResetablePull(r) == [value |-> r.current, after |-> [r EXCEPT !.current = r.initial]]

\* constructor(config): Object.assign({}, {accessKeyId, accessKeySecret,
\* region, secure}, config)
legacyOptions(cfg) ==
    ObjectAssign([accessKeyId |-> cfg.key, accessKeySecret |-> cfg.secret,
                  region |-> cfg.region, secure |-> cfg.secure], cfg)
LegacyConfigs ==
    [key : {"id"}, secret : {"s3cr3t"}, region : {"oss-cn-x"}, secure : BOOLEAN,
     bucket : {LegacyDefaultBucket}]

\* getUrl(location, bucket): bucket = bucket || this._bucket.pull()
legacyGetUrl(client, r, location, bucket) ==
    LET pulled == ResetablePull(r)
        b == IF bucket # "" THEN bucket ELSE pulled.value
    IN  [url |-> <<IF client.options.secure THEN "https://" ELSE "http://",
                   b, ".", client.options.region, ".aliyuncs.com/", location>>,
         after |-> IF bucket # "" THEN r ELSE pulled.after]

\* copy(src, dest, destBucket), up to its await: the source reference
legacyCopySource(r, src) ==
    LET pulled == ResetablePull(r)
    IN  [source |-> <<"/", pulled.value, "/", src>>, after |-> pulled.after]

\* A caller's call: chosen is the bucket it selected with bucket() before the
\* call ("": it selected none), source the reference passed to oss.copy, url
\* the string returned, thrown the error the call rejected with.
NoCall ==
    [op |-> "", chosen |-> "", src |-> "", dest |-> "", bucketArg |-> "",
     source |-> <<>>, url |-> <<>>, thrown |-> NoErr]
Chosen(c) == IF lpc[c] = "selected" THEN lcall[c].chosen ELSE ""
CanCall(c) == lpc[c] \in {"idle", "selected", "done"}

\* bucket(bucket): this._bucket.set(bucket); return this
LBucket(c, name) ==
    /\ CanCall(c)
    /\ lbucket' = ResetableSet(lbucket, name)
    /\ lpc' = [lpc EXCEPT ![c] = "selected"]
    /\ lcall' = [lcall EXCEPT ![c] = [NoCall EXCEPT !.chosen = name]]
    /\ UNCHANGED <<loss, ossVars>>

LGetUrl(c, location, bucket) ==
    /\ CanCall(c)
    /\ LET got == legacyGetUrl(loss, lbucket, location, bucket)
       IN  /\ lbucket' = got.after
           /\ lcall' = [lcall EXCEPT ![c] =
                           [NoCall EXCEPT !.op = "getUrl", !.chosen = Chosen(c),
                                          !.dest = location, !.bucketArg = bucket,
                                          !.url = got.url]]
    /\ lpc' = [lpc EXCEPT ![c] = "done"]
    /\ UNCHANGED <<loss, ossVars>>

\* copy(src, dest, destBucket) and move(src, dest, destBucket), up to the
\* await of this.oss.copy(dest, combinedDest)
LCopyStart(c, op, src, dest, destBucket) ==
    /\ CanCall(c)
    /\ LET ref == legacyCopySource(lbucket, src)
       IN  /\ lbucket' = ref.after
           /\ lcall' = [lcall EXCEPT ![c] =
                           [NoCall EXCEPT !.op = op, !.chosen = Chosen(c),
                                          !.src = src, !.dest = dest,
                                          !.bucketArg = destBucket,
                                          !.source = ref.source]]
    /\ lpc' = [lpc EXCEPT ![c] = "copying"]
    /\ UNCHANGED <<loss, ossVars>>

\* copy resumed: return this.getUrl(dest, destBucket); in move, then up to
\* the await of this.delete(src)
LCopyFinish(c) ==
    /\ lpc[c] = "copying"
    /\ \E answer \in LegacyAnswers :
          IF answer = NoErr
          THEN LET got == legacyGetUrl(loss, lbucket, lcall[c].dest, lcall[c].bucketArg)
               IN  /\ lbucket' = got.after
                   /\ lcall' = [lcall EXCEPT ![c].url = got.url]
                   /\ lpc' = [lpc EXCEPT ![c] =
                                 IF lcall[c].op = "move" THEN "deleting" ELSE "done"]
          ELSE /\ lcall' = [lcall EXCEPT ![c].thrown = answer]
               /\ lpc' = [lpc EXCEPT ![c] = "done"]
               /\ UNCHANGED lbucket
    /\ UNCHANGED <<loss, ossVars>>

\* move resumed after await this.delete(src): return url
LMoveDelete(c) ==
    /\ lpc[c] = "deleting"
    /\ \E answer \in LegacyAnswers :
          lcall' = [lcall EXCEPT ![c].thrown = answer,
                                 ![c].url = IF answer = NoErr THEN @ ELSE <<>>]
    /\ lpc' = [lpc EXCEPT ![c] = "done"]
    /\ UNCHANGED <<lbucket, loss, ossVars>>

\* exists, put, delete, get: await this.oss.<op>(location, ...), passed through
LSimple(c, op, location) ==
    /\ CanCall(c)
    /\ \E answer \in LegacyAnswers :
          lcall' = [lcall EXCEPT ![c] =
                       [NoCall EXCEPT !.op = op, !.chosen = Chosen(c),
                                      !.dest = location, !.thrown = answer]]
    /\ lpc' = [lpc EXCEPT ![c] = "done"]
    /\ UNCHANGED <<lbucket, loss, ossVars>>

\* constructor(config)
LegacyConstructed ==
    /\ \E cfg \in LegacyConfigs :
          /\ loss = NewOSS(legacyOptions(cfg))
          /\ lbucket = Resetable(cfg.bucket)
    /\ lpc = [c \in Callers |-> "idle"]
    /\ lcall = [c \in Callers |-> NoCall]

\* The legacy instance while the model follows AliyunOSS: constructed, unused.
LegacyIdle ==
    /\ loss = NewOSS(legacyOptions([key |-> "id", secret |-> "s3cr3t",
                                    region |-> "oss-cn-x", secure |-> FALSE,
                                    bucket |-> LegacyDefaultBucket]))
    /\ lbucket = Resetable(LegacyDefaultBucket)
    /\ lpc = [c \in Callers |-> "idle"]
    /\ lcall = [c \in Callers |-> NoCall]

(***************************************************************************)
(* Spec: one AliyunOSS instance shared by Callers                          *)
(***************************************************************************)
\* constructor(config), on a backend whose existing buckets are empty
Init ==
    /\ \E cfg \in AliyunOSSConfigs :
          /\ driver = NewOSS(configParams(cfg))
          /\ config = configParams(cfg)
          /\ bucketName = cfg.bucket
    /\ store = [b \in ExistingBuckets |-> [k \in Keys |-> NoObject]]
    /\ pc = "idle"
    /\ mv = NoMove
    /\ res = BlankRes
    /\ last = [k \in Keys |-> NoWrite]
    /\ LegacyIdle

Next ==
    \/ \E k \in Keys : Exists(k)
    \/ \E k \in Keys : GetBuffer(k)
    \/ \E k \in Keys, e \in Encodings : Get(k, e)
    \/ \E k \in Keys : GetStat(k)
    \/ \E k \in Keys : GetStream(k)
    \/ \E k \in Keys, o \in SignedUrlOptions : GetSignedUrl(k, o)
    \/ \E k \in Keys : GetUrl(k)
    \/ \E b \in AllBuckets : Bucket(b)
    \/ Driver
    \/ \E k \in Keys, x \in PutContents : Put(k, x)
    \/ \E k \in Keys : Delete(k)
    \/ \E s \in Keys, d \in Keys : Copy(s, d)
    \/ \E s \in Keys, d \in Keys : MoveCopy(s, d)
    \/ MoveDelete

Spec == Init /\ [][Next]_vars

(***************************************************************************)
(* LegacySpec: one Aliyun instance shared by Callers                       *)
(***************************************************************************)
\* The AliyunOSS instance while the model follows Aliyun: constructed, unused.
OSSIdle ==
    /\ \E cfg \in {c \in AliyunOSSConfigs : c.bucket = "main"} :
          /\ driver = NewOSS(configParams(cfg))
          /\ config = configParams(cfg)
          /\ bucketName = cfg.bucket
    /\ store = [b \in ExistingBuckets |-> [k \in Keys |-> NoObject]]
    /\ pc = "idle"
    /\ mv = NoMove
    /\ res = BlankRes
    /\ last = [k \in Keys |-> NoWrite]

LegacyInit == LegacyConstructed /\ OSSIdle

LegacyNext ==
    \E c \in Callers :
        \/ LBucket(c, OwnBucket(c))
        \/ \E k \in Keys, b \in BucketArgs : LGetUrl(c, k, b)
        \/ \E op \in {"copy", "move"}, b \in BucketArgs :
              LCopyStart(c, op, "a.txt", "b.txt", b)
        \/ LCopyFinish(c)
        \/ LMoveDelete(c)
        \/ \E op \in LegacySimpleOps, k \in Keys : LSimple(c, op, k)

LegacySpec == LegacyInit /\ [][LegacyNext]_vars


(***************************************************************************)
(* Claims about AliyunOSS, checked under Spec                              *)
(***************************************************************************)
\* The answer exists(k) gets now when the backend does not fail.
ExistsNow(k) ==
    LET req == headRequest(driver, k)
        answer == CHOOSE a \in Answers(store, req, NoContent) \ Faults : a.name # "NoSuchBucketError"
    IN  existsOutcome(driver, k, answer)

\* C1: exists(K) never fails because K is absent.  When K is not present the
\* call resolves with exists = false and the backend's not-found answer as
\* raw; it rejects only when the head request failed with a status other
\* than 404; when K is present and the request succeeds it resolves with
\* exists = true.
C1_ExistsNeverFailsOnAbsent ==
    res.op = "exists" =>
        /\ res.state \in {"resolved", "rejected"}
        /\ res.state = "rejected" =>
              /\ res.answer # NoErr
              /\ res.answer.status # 404
        /\ (res.answer = NoErr \/ res.answer.status = 404) => res.state = "resolved"
        /\ ~Stored(res.loc).present /\ res.state = "resolved" =>
              /\ res.exists = FALSE
              /\ res.raw = "error"
              /\ res.answer.status = 404
        /\ Stored(res.loc).present /\ res.state = "resolved" =>
              /\ res.exists = TRUE
              /\ res.raw = "result"

C1_Witness ==
    /\ res.op = "exists"
    /\ ~Stored(res.loc).present
    /\ res.state = "resolved"
    /\ res.exists = FALSE
    /\ res.raw = "error"
    /\ last[res.loc].op = "delete"

\* C2: read-your-writes.  While the successful writes so far are puts of byte
\* payloads and deletes, every key whose latest write is a put(K, P) holds
\* exactly P and a getBuffer(K) that resolves returns P (it rejects only on a
\* backend fault); every key whose latest write is a delete, or that was
\* never put, holds nothing: exists(K) is false and getBuffer(K) fails.
\* All keys are held to this at once, so a put or delete on K changed no
\* other key.
C2_ReadYourWrites ==
    /\ \A k \in Keys :
          /\ last[k].op = "put" => Stored(k) = Object(last[k].bytes)
          /\ last[k].op \in {"delete", "none"} => ~Stored(k).present
    /\ res.op = "getBuffer" /\ last[res.loc].op = "put" =>
          \/ res.state = "resolved" /\ res.content = last[res.loc].bytes
          \/ res.state = "rejected" /\ res.answer \in Faults
    /\ res.op = "getBuffer" /\ last[res.loc].op \in {"delete", "none"} =>
          res.state = "rejected"
    /\ res.op = "exists" /\ last[res.loc].op \in {"delete", "none"} =>
          \/ res.state = "resolved" /\ res.exists = FALSE
          \/ res.state = "rejected" /\ res.answer \in Faults

C2_Witness ==
    /\ res.op = "getBuffer"
    /\ res.state = "resolved"
    /\ last[res.loc].op = "put"
    /\ Len(res.content) = MaxLen
    /\ \E k \in Keys : k # res.loc /\ last[k].op = "delete"

\* C3: error classification.  For get, getBuffer, getStat, put, delete, copy
\* and getSignedUrl, a backend request that fails with NoSuchKeyError makes
\* the call fail with FileNotFound(cause, path) and any other failure makes
\* it fail with UnknownException(cause, cause.name, path), path being the
\* call's location (copy: src).  So get on an absent key fails with
\* FileNotFound unless the backend itself is at fault, and put on an adapter
\* of a nonexistent bucket fails with UnknownException.
C3_ErrorClassification ==
    /\ (/\ res.op \in {"get", "getBuffer", "getStat", "put", "delete", "copy",
                        "getSignedUrl"}
        /\ res.answer # NoErr) =>
          /\ res.state = "rejected"
          /\ res.thrown.cause = res.answer
          /\ res.thrown.path = res.loc
          /\ res.answer.name = "NoSuchKeyError" => res.thrown.class = "FileNotFound"
          /\ res.answer.name # "NoSuchKeyError" =>
                /\ res.thrown.class = "UnknownException"
                /\ res.thrown.code = res.answer.name
    /\ res.op = "get" /\ bucketName \in ExistingBuckets /\ ~Stored(res.loc).present =>
          /\ res.state = "rejected"
          /\ res.answer \notin Faults => res.thrown.class = "FileNotFound"
    /\ res.op = "put" /\ bucketName \notin ExistingBuckets =>
          /\ res.state = "rejected"
          /\ res.thrown.class = "UnknownException"

C3_Witness ==
    /\ res.op = "get"
    /\ res.state = "rejected"
    /\ res.thrown = [class |-> "FileNotFound", cause |-> NoSuchKey, code |-> "",
                     path |-> res.loc]
    /\ last[res.loc].op = "delete"

\* C4: closed error taxonomy.  Whatever the backend fails with, the failure
\* the caller observes from the call is a FileNotFound or an
\* UnknownException, never the backend's own error.
C4_ClosedTaxonomy ==
    res.state = "rejected" /\ res.answer # NoErr => res.thrown.class \in Taxonomy


\* C5: move(src, dest) is copy(src, dest), then delete(src).  A step of move
\* issues one request.  Its copy is copy(dest <- src), issued from idle: if
\* it fails the move rejects with the copy's classified error, nothing is
\* stored or removed and no delete follows; if it succeeds the move is left
\* between its steps with src intact and a duplicate at dest.  Its delete is
\* issued only from there, on src: if it fails the move rejects with the
\* delete's classified error (it never resolves) and nothing is removed, so
\* src and the copy at dest remain; if it succeeds only src is removed.
C5_Step ==
    res'.op = "move" =>
        LET q == res'.reqs[1]
        IN  /\ Len(res'.reqs) = 1
            /\ q.op \in {"copy", "delete"}
            /\ q.op = "copy" =>
                  /\ pc = "idle"
                  /\ q.a1 = res'.dest /\ q.a2 = res'.loc
                  /\ res'.state \in {"pending", "rejected"}
                  /\ res'.state = "rejected" =>
                        /\ res'.answer # NoErr
                        /\ res'.thrown.class \in Taxonomy
                        /\ res'.thrown.cause = res'.answer
                        /\ res'.thrown.path = res'.loc
                        /\ store' = store
                        /\ pc' = "idle"
                  /\ res'.state = "pending" =>
                        /\ res'.answer = NoErr
                        /\ pc' = "moving"
                        /\ mv'.src = res'.loc /\ mv'.dest = res'.dest
                        /\ store[q.bucket][res'.loc].present
                        /\ store'[q.bucket][res'.loc] = store[q.bucket][res'.loc]
                        /\ store'[q.bucket][res'.dest] = store[q.bucket][res'.loc]
            /\ q.op = "delete" =>
                  /\ pc = "moving" /\ pc' = "idle"
                  /\ q.a1 = mv.src /\ res'.loc = mv.src /\ res'.dest = mv.dest
                  /\ res'.state \in {"resolved", "rejected"}
                  /\ res'.answer # NoErr =>
                        /\ res'.state = "rejected"
                        /\ res'.thrown.class \in Taxonomy
                        /\ res'.thrown.cause = res'.answer
                        /\ res'.thrown.path = mv.src
                        /\ store' = store
                        /\ mv.clean =>
                              /\ store'[q.bucket][mv.dest] = mv.before
                              /\ store'[q.bucket][mv.src] = mv.before
                              /\ mv.before.present
                  /\ res'.answer = NoErr =>
                        /\ res'.state = "resolved"
                        /\ store' = [store EXCEPT ![q.bucket][mv.src] = NoObject]
C5_MoveIsCopyThenDelete == [][C5_Step]_vars

C5_Witness ==
    /\ res.op = "move"
    /\ res.state = "rejected"
    /\ res.reqs[1].op = "delete"
    /\ res.clean
    /\ res.loc # res.dest
    /\ Stored(res.loc).present
    /\ Stored(res.dest) = Stored(res.loc)

\* C6 as stated: after a move whose copy and delete both succeeded (and that
\* no other call's write to src or dest came between), exists(dest) is true,
\* exists(src) is false and dest holds what src held, for every src and dest,
\* src = dest included.
C6_MovePostconditionAnyPair ==
    (res.op = "move" /\ res.state = "resolved" /\ res.clean) =>
        /\ ExistsNow(res.dest).exists = TRUE
        /\ ExistsNow(res.loc).exists = FALSE
        /\ Stored(res.dest) = res.before

\* C6, amended: the same for src # dest.  (move(K, K) copies K onto itself
\* and then deletes it: nothing is left under K.)
C6_MovePostcondition ==
    (res.op = "move" /\ res.state = "resolved" /\ res.clean /\ res.loc # res.dest) =>
        /\ ExistsNow(res.dest).exists = TRUE
        /\ ExistsNow(res.loc).exists = FALSE
        /\ Stored(res.dest) = res.before
        /\ res.before.present

C6_Witness ==
    /\ res.op = "move"
    /\ res.state = "resolved"
    /\ res.clean
    /\ res.loc # res.dest
    /\ Len(res.before.body) = MaxLen
    /\ Stored(res.dest) = res.before
    /\ ~Stored(res.loc).present

\* C7: no call mutates the adapter.  $driver, $config and $bucket are as the
\* constructor left them after every step of every call, whatever calls
\* interleave; bucket(name) returns a handle with the receiver's
\* configuration except bucket = name; and every request of every call goes
\* to the bucket the adapter was constructed with.
C7_Step ==
    /\ driver' = driver
    /\ config' = config
    /\ bucketName' = bucketName
    /\ \A i \in DOMAIN res'.reqs : res'.reqs[i].bucket = bucketName
    /\ res'.op = "bucket" =>
          \A f \in DOMAIN config :
              res'.handle.options[f] = IF f = "bucket" THEN res'.loc ELSE config[f]
C7_NoCallMutatesAdapter ==
    /\ driver.options = config /\ bucketName = config.bucket
    /\ [][C7_Step]_vars

C7_Witness ==
    /\ res.op = "bucket"
    /\ res.loc # bucketName
    /\ res.handle.options.bucket = res.loc
    /\ driver.options.bucket = bucketName
    /\ pc = "moving"

\* C8 (LegacySpec), as stated: when the callers share one Aliyun instance
\* and each selects its own bucket with bucket(b) and then calls getUrl, copy
\* or move, then in every interleaving each caller's call uses the bucket that
\* caller selected: the source reference '/bucket/src' passed to the backend
\* copy names it, and the URL returned by getUrl, copy or move names it, or
\* the explicit bucket argument when one is given.
\* The driver keeps the selection in one Resetable shared by all callers, and
\* every pull resets it, so this does not hold.
C8_BucketScopeIsolation ==
    \A c \in Callers :
        (lcall[c].chosen # "" /\ lcall[c].op \in {"getUrl", "copy", "move"}) =>
            /\ lcall[c].source # <<>> => lcall[c].source[2] = lcall[c].chosen
            /\ lcall[c].url # <<>> =>
                  lcall[c].url[2] = IF lcall[c].bucketArg # ""
                                    THEN lcall[c].bucketArg
                                    ELSE lcall[c].chosen

\* C9 as stated: without expiry the parameters passed to signatureUrl carry
\* expires = 900, and with expiry = E they carry expires = E, whatever other
\* option fields are passed.
C9_ExpiryAlwaysWins ==
    res.op = "getSignedUrl" =>
        /\ "expiry" \notin DOMAIN res.options => res.params.expires = 900
        /\ "expiry" \in DOMAIN res.options => res.params.expires = res.options.expiry

\* C9, amended: that holds when the options carry no expires field of the
\* backend's own; when they carry expires = X, the parameters carry X, with
\* or without an expiry.  The URL is signed for the expires passed.
C9_SignedUrlExpiry ==
    res.op = "getSignedUrl" =>
        /\ "expires" \in DOMAIN res.options => res.params.expires = res.options.expires
        /\ "expires" \notin DOMAIN res.options =>
              /\ "expiry" \notin DOMAIN res.options => res.params.expires = 900
              /\ "expiry" \in DOMAIN res.options => res.params.expires = res.options.expiry
        /\ res.state = "resolved" => res.signedFor = res.params.expires

C9_Witness ==
    /\ res.op = "getSignedUrl"
    /\ res.state = "resolved"
    /\ DOMAIN res.options = {"expiry", "expires"}
    /\ res.options.expiry # res.options.expires
    /\ res.signedFor = res.options.expires

\* C10 (LegacySpec), as stated: getUrl is pure: from every reachable adapter
\* state, the state right after bucket(name) included, and for every key K,
\* getUrl(K) changes no adapter state, so that a second getUrl(K) with no call
\* in between returns the identical string; the string is built from the
\* protocol (https when secure, else http), the bucket, the region and K only.
\* Aliyun.getUrl pulls the Resetable bucket, which resets it, so this does not
\* hold of the legacy driver.
C10_Step ==
    \A c \in Callers, k \in Keys :
        LGetUrl(c, k, "") =>
            /\ lbucket' = lbucket
            /\ loss' = loss
            /\ legacyGetUrl(loss', lbucket', k, "").url = lcall'[c].url
            /\ lcall'[c].url =
                  <<IF loss.options.secure THEN "https://" ELSE "http://",
                    lbucket.current, ".", loss.options.region, ".aliyuncs.com/", k>>
C10_GetUrlPure == [][C10_Step]_vars

\* The same statement of AliyunOSS.getUrl, under Spec, where it holds: the
\* call issues no request, assigns no field, and repeats its answer.
C10_OSSStep ==
    \A k \in Keys :
        GetUrl(k) =>
            /\ UNCHANGED <<adapterVars, store>>
            /\ res'.reqs = <<>>
            /\ getUrlOutcome(driver', k).url = res'.url
            /\ res'.url =
                  <<IF driver.options.secure THEN "https://" ELSE "http://",
                    bucketName, ".">> \o EndpointHost(driver.options) \o <<"/", k>>
C10_OSSGetUrlPure == [][C10_OSSStep]_vars

====
